---- MODULE Spec2Model ----
(***************************************************************************)
(* Chesser: the controller that keeps a chess.js rules engine, a           *)
(* chessground board, the move Ledger (moves, currentMoveIdx) and the      *)
(* localStorage record in step.                                            *)
(*                                                                         *)
(* The controller is modelled from src/unnamed/part_000 (the version with  *)
(* the Ledger).  chess.js and chessground are libraries outside the        *)
(* repository: they are modelled by their documented behaviour on a small  *)
(* board (2 files x 4 ranks, a king and a pawn per side, promotion on the  *)
(* last rank), so that legality, check, capture and promotion all occur.   *)
(***************************************************************************)
EXTENDS Integers, Sequences, FiniteSets, TLC

\* ------------------------------------------------------------------------
\* Bounds of the model
\* ------------------------------------------------------------------------

\* the move handler is enabled while the Ledger is shorter than this
MaxMoves == 2

\* undo_move may take the cursor at most this far below the sentinel -1
MaxUnderflow == 1

\* redo_move may take the cursor at most this far beyond the Ledger's end
MaxOverflow == 1

\* ------------------------------------------------------------------------
\* JavaScript values
\* ------------------------------------------------------------------------

\* JavaScript's undefined (an absent key, a missing argument)
Undefined == "undefined"

\* JavaScript's null where a Move is expected (chess.move's result for a
\* move it rejects)
Null == [null |-> TRUE]

\* what reading a Move past either end of an array gives
UndefinedMove == [undefined |-> TRUE]

\* an object without keys
EmptyObject == [k \in {} |-> TRUE]

\* the object o has the key k
Has(o, k) == k \in DOMAIN o

\* Object.assign({}, a, b), { ...a, ...b }: b's keys win
Assign(a, b) == b @@ a

RECURSIVE Concat(_)
\* the concatenation of a sequence of sequences
Concat(ss) == IF ss = <<>> THEN <<>> ELSE Head(ss) \o Concat(Tail(ss))

\* ------------------------------------------------------------------------
\* chess.js on a small board
\* ------------------------------------------------------------------------

Files == 1..2
Ranks == 1..4

\* a square is <<file, rank>>
Squares == Files \X Ranks

LastRank(c) == IF c = "w" THEN 4 ELSE 1

\* chess.SQUARES: a8, b8, ..., g1, h1 (rank descending, file ascending)
SQUARES == << <<1, 4>>, <<2, 4>>, <<1, 3>>, <<2, 3>>,
              <<1, 2>>, <<2, 2>>, <<1, 1>>, <<2, 1>> >>

NoPiece == [color |-> "-", type |-> "-"]

Piece(c, t) == [color |-> c, type |-> t]

swap_color(c) == IF c = "w" THEN "b" ELSE "w"

\* PAWN_OFFSETS: the push, then the two captures
PawnPush(c) == IF c = "w" THEN <<0, 1>> ELSE <<0, -1>>

PawnCaptures(c) == IF c = "w" THEN << <<-1, 1>>, <<1, 1>> >>
                               ELSE << <<1, -1>>, <<-1, -1>> >>

\* PIECE_OFFSETS of the king and the queen
KingOffsets == << <<-1, 1>>, <<0, 1>>, <<1, 1>>, <<1, 0>>,
                  <<1, -1>>, <<0, -1>>, <<-1, -1>>, <<-1, 0>> >>

\* PIECE_OFFSETS of the knight
KnightOffsets == << <<-2, 1>>, <<-1, 2>>, <<1, 2>>, <<2, 1>>,
                    <<2, -1>>, <<1, -2>>, <<-1, -2>>, <<-2, -1>> >>

\* the pieces a pawn promotes to, in the order generate_moves adds them
Promotions == <<"q", "n">>

Add(s, d, k) == <<s[1] + k * d[1], s[2] + k * d[2]>>

Range(f) == {f[i] : i \in DOMAIN f}

\* the squares strictly between s and Add(s, d, k) are on the board and empty
ClearRay(board, s, d, k) ==
  \A j \in 1..(k - 1) : Add(s, d, j) \in Squares /\ board[Add(s, d, j)] = NoPiece

\* attacked(): the piece on `from` attacks the square `to`
Attacks(board, from, to) ==
  LET p == board[from]
      d == <<to[1] - from[1], to[2] - from[2]>>
  IN CASE p.type = "p" -> d \in Range(PawnCaptures(p.color))
       [] p.type = "k" -> d \in Range(KingOffsets)
       [] p.type = "n" -> d \in Range(KnightOffsets)
       [] p.type = "q" -> \E o \in Range(KingOffsets), k \in 1..3 :
                             Add(from, o, k) = to /\ ClearRay(board, from, o, k)
       [] OTHER -> FALSE

\* king_attacked(c): the king of colour c stands on an attacked square
king_attacked(board, c) ==
  \E ks \in Squares :
    /\ board[ks] = Piece(c, "k")
    /\ \E s \in Squares : board[s].color = swap_color(c) /\ Attacks(board, s, ks)

\* build_move: an internal move; captured and promotion are Undefined when
\* the move has none
build_move(board, c, from, to, promotion) ==
  [color |-> c, from |-> from, to |-> to, piece |-> board[from].type,
   captured |-> IF board[to] = NoPiece THEN Undefined ELSE board[to].type,
   promotion |-> promotion]

\* add_move: one move, or one per promotion piece for a pawn reaching the
\* last rank
add_move(board, c, from, to) ==
  IF board[from].type = "p" /\ to[2] = LastRank(c)
    THEN [i \in 1..Len(Promotions) |-> build_move(board, c, from, to, Promotions[i])]
    ELSE << build_move(board, c, from, to, Undefined) >>

\* the pseudo-legal moves of the piece on s, in generate_moves' order
PseudoMoves(pos, s) ==
  LET board == pos.board
      us == pos.turn
      p == board[s]
      step(o) == LET t == Add(s, o, 1)
                 IN IF t \in Squares /\ board[t].color # us
                      THEN add_move(board, us, s, t) ELSE <<>>
      ray(o) == Concat([k \in 1..3 |->
                  LET t == Add(s, o, k)
                  IN IF t \in Squares /\ ClearRay(board, s, o, k) /\ board[t].color # us
                       THEN add_move(board, us, s, t) ELSE <<>>])
      push == LET t == Add(s, PawnPush(us), 1)
              IN IF t \in Squares /\ board[t] = NoPiece
                   THEN add_move(board, us, s, t) ELSE <<>>
      capture(o) == LET t == Add(s, o, 1)
                    IN IF t \in Squares /\ board[t].color = swap_color(us)
                         THEN add_move(board, us, s, t) ELSE <<>>
  IN IF p.color # us THEN <<>>
     ELSE CASE p.type = "p" -> push \o Concat([i \in 1..2 |-> capture(PawnCaptures(us)[i])])
            [] p.type = "k" -> Concat([i \in 1..8 |-> step(KingOffsets[i])])
            [] p.type = "n" -> Concat([i \in 1..8 |-> step(KnightOffsets[i])])
            [] p.type = "q" -> Concat([i \in 1..8 |-> ray(KingOffsets[i])])
            [] OTHER -> <<>>

\* make_move on the position: the board, the side to move and the counters
make_move(pos, m) ==
  [board |-> [pos.board EXCEPT
                ![m.from] = NoPiece,
                ![m.to] = IF m.promotion # Undefined
                            THEN Piece(m.color, m.promotion)
                            ELSE pos.board[m.from]],
   turn |-> swap_color(pos.turn),
   half_moves |-> IF m.piece = "p" \/ m.captured # Undefined
                    THEN 0 ELSE pos.half_moves + 1,
   move_number |-> IF pos.turn = "b" THEN pos.move_number + 1 ELSE pos.move_number]

\* generate_moves({square: s}): the legal moves of the piece on s (those
\* that do not leave the mover's king attacked)
generate_moves_at(pos, s) ==
  SelectSeq(PseudoMoves(pos, s),
            LAMBDA m : ~king_attacked(make_move(pos, m).board, pos.turn))

\* generate_moves(): the legal moves of the side to move, square by square
generate_moves(pos) ==
  Concat([i \in 1..Len(SQUARES) |-> generate_moves_at(pos, SQUARES[i])])

in_check_pos(pos) == king_attacked(pos.board, pos.turn)

\* move_to_san: the notation of move m in position pos.  A position holds at
\* most one piece of a kind per colour, so no disambiguator is needed.
move_to_san(pos, m) ==
  LET after == make_move(pos, m)
  IN [piece |-> m.piece,
      file |-> IF m.piece = "p" /\ m.captured # Undefined THEN m.from[1] ELSE 0,
      capture |-> m.captured # Undefined,
      to |-> m.to,
      promotion |-> m.promotion,
      suffix |-> IF in_check_pos(after)
                   THEN (IF generate_moves(after) = <<>> THEN "#" ELSE "+")
                   ELSE ""]

\* make_pretty: the Move handed to callers, the internal move with its
\* notation
make_pretty(m, san) ==
  [color |-> m.color, from |-> m.from, to |-> m.to, piece |-> m.piece,
   captured |-> m.captured, promotion |-> m.promotion, san |-> san]

\* DEFAULT_POSITION
DefaultPosition ==
  [board |-> [s \in Squares |->
                CASE s = <<1, 1>> -> Piece("w", "k")
                  [] s = <<2, 2>> -> Piece("w", "p")
                  [] s = <<2, 4>> -> Piece("b", "k")
                  [] s = <<1, 3>> -> Piece("b", "p")
                  [] OTHER -> NoPiece],
   turn |-> "w", half_moves |-> 0, move_number |-> 1]

\* new Chess(): the engine holds the position, the stack of moves made and
\* the position the game started from.  An entry of the stack holds the move,
\* the position it was made in and its notation there (history() and pgn()
\* work the notation out again by replaying the stack; it depends on that
\* position and that move only).
NewChess == [pos |-> DefaultPosition, history |-> <<>>, start |-> DefaultPosition]

\* the first legal move with the from, the to and (when the legal move
\* promotes) the promotion of the move asked for; Null when there is none
FindMove(pos, from, to, promotion) ==
  LET ms == SelectSeq(generate_moves(pos),
                      LAMBDA m : /\ from = m.from
                                 /\ to = m.to
                                 /\ (m.promotion = Undefined \/ promotion = m.promotion))
  IN IF ms = <<>> THEN Null ELSE Head(ms)

\* the engine after making the internal move m
Push(c, m) ==
  [c EXCEPT !.pos = make_move(c.pos, m),
            !.history = Append(c.history, [move |-> m, pos |-> c.pos,
                                           san |-> move_to_san(c.pos, m)])]

\* chess.fen()
Fen(c) == c.pos

\* chess.turn()
Turn(c) == c.pos.turn

\* chess.in_check()
InCheck(c) == in_check_pos(c.pos)

\* chess.history({verbose: true})
History(c) ==
  [i \in 1..Len(c.history) |-> make_pretty(c.history[i].move, c.history[i].san)]

\* chess.undo(): pops the last move; nothing changes when there is none
ChessUndo(c) ==
  IF c.history = <<>> THEN c
  ELSE [c EXCEPT !.pos = c.history[Len(c.history)].pos,
                 !.history = SubSeq(c.history, 1, Len(c.history) - 1)]

\* chess.move(move) throws a TypeError: move is null and the loop over the
\* legal moves reads move.from
MoveThrows(c, move) == move = Null /\ generate_moves(c.pos) # <<>>

\* the internal move chess.move(move) finds for a move object (Null when
\* it finds none); an undefined argument is no object and finds none
MoveFound(c, move) ==
  IF move = Null \/ move = UndefinedMove THEN Null
  ELSE FindMove(c.pos, move.from, move.to, move.promotion)

\* the engine after chess.move(move)
ChessMove(c, move) ==
  LET m == MoveFound(c, move)
  IN IF m = Null THEN c ELSE Push(c, m)

\* what chess.move(move) returns when it leaves the engine as `after`: the
\* Move made, or Null when it made none
MoveResult(c, after) ==
  IF Len(after.history) = Len(c.history) THEN Null
  ELSE History(after)[Len(after.history)]

\* the move object { from: orig, to: dest } of the move handler
FromTo(orig, dest) == [from |-> orig, to |-> dest, promotion |-> Undefined]

\* chess.load(fen): the position becomes fen, the history is emptied and the
\* SetUp/FEN headers record fen as the start of the game
ChessLoad(fen) == [pos |-> fen, history |-> <<>>, start |-> fen]

\* chess.pgn(): the FEN header when the game did not start from the default
\* position, and the notation of every move of the history
Pgn(c) ==
  [start |-> c.start,
   sans |-> [i \in 1..Len(c.history) |-> c.history[i].san]]

\* the pgn of a new game, the empty string
EmptyPgn == [start |-> DefaultPosition, sans |-> <<>>]

\* stripped_san: the notation without its check and mate decoration
stripped_san(san) == [san EXCEPT !.suffix = ""]

\* move_from_san: the legal move whose stripped notation is the stripped san
move_from_san(pos, san) ==
  LET ms == SelectSeq(generate_moves(pos),
                      LAMBDA m : stripped_san(move_to_san(pos, m)) = stripped_san(san))
  IN IF ms = <<>> THEN Null ELSE Head(ms)

RECURSIVE LoadMoves(_, _)
\* load_pgn's loop: each move is parsed and made; the first one that does not
\* parse ends the load, the moves before it made
LoadMoves(c, sans) ==
  IF sans = <<>> THEN c
  ELSE LET m == move_from_san(c.pos, Head(sans))
       IN IF m = Null THEN c ELSE LoadMoves(Push(c, m), Tail(sans))

\* chess.load_pgn(pgn, { sloppy: true })
ChessLoadPgn(pgn) == LoadMoves(ChessLoad(pgn.start), pgn.sans)

\* ------------------------------------------------------------------------
\* chessground
\* ------------------------------------------------------------------------

CgNoPiece == [color |-> "-", role |-> "-"]

\* chessground's colour names
CgColor(c) == IF c = "w" THEN "white" ELSE "black"

opposite(c) == IF c = "white" THEN "black" ELSE "white"

\* chessground's role names
CgRole(t) == CASE t = "k" -> "king" [] t = "p" -> "pawn"
               [] t = "q" -> "queen" [] t = "n" -> "knight"

\* fenRead: the pieces of a FEN (its placement field; the side to move and
\* the counters are not read)
FenRead(fen) ==
  [s \in Squares |->
     IF fen.board[s] = NoPiece THEN CgNoPiece
     ELSE [color |-> CgColor(fen.board[s].color), role |-> CgRole(fen.board[s].type)]]

\* movable.dests when it is undefined
NoDests == [defined |-> FALSE, map |-> EmptyObject]

\* setCheck(state, check): the square of the king of the colour to move when
\* check is set, nothing otherwise
SetCheck(pieces, turnColor, check) ==
  IF check THEN {s \in Squares : pieces[s] = [color |-> turnColor, role |-> "king"]}
  ELSE {}

\* Chessground(el, { fen, orientation, ... }): the defaults (white to move,
\* every colour movable, free movement) with the pieces of fen
Chessground(fen, orientation) ==
  [pieces |-> FenRead(fen),
   orientation |-> orientation,
   turnColor |-> "white",
   check |-> {},
   shapes |-> <<>>,
   events |-> [move |-> Undefined],
   movable |-> [free |-> TRUE, color |-> "both", dests |-> NoDests]]

\* cg.set({ fen }): the pieces are replaced and the drawn shapes dropped
CgSetFen(g, fen) == [g EXCEPT !.pieces = FenRead(fen), !.shapes = <<>>]

\* isMovable
isMovable(g, orig) ==
  /\ g.pieces[orig] # CgNoPiece
  /\ \/ g.movable.color = "both"
     \/ /\ g.movable.color = g.pieces[orig].color
        /\ g.turnColor = g.pieces[orig].color

\* canMove: what the board lets the user play
canMove(g, orig, dest) ==
  /\ orig # dest
  /\ isMovable(g, orig)
  /\ \/ g.movable.free
     \/ /\ g.movable.dests.defined
        /\ orig \in DOMAIN g.movable.dests.map
        /\ dest \in Range(g.movable.dests.map[orig])

\* baseUserMove: the piece is put on dest, the check mark and the
\* destinations are dropped and the colour to move is swapped; the move event
\* is delivered after that
baseUserMove(g, orig, dest) ==
  [g EXCEPT !.pieces = [g.pieces EXCEPT ![dest] = g.pieces[orig], ![orig] = CgNoPiece],
            !.check = {},
            !.turnColor = opposite(g.turnColor),
            !.movable.dests = NoDests]

\* ------------------------------------------------------------------------
\* Chesser
\* ------------------------------------------------------------------------

VARIABLES
  user_config,     \* the configuration parsed from the code block
  storage,         \* the localStorage item chesser-<id>
  chess,           \* this.chess
  cg,              \* this.cg
  moves,           \* this.moves, the Ledger
  currentMoveIdx,  \* this.currentMoveIdx, the cursor
  menu,            \* this.menu
  id,              \* this.id
  layout,          \* the callback given to onLayoutReady: "none", "pending"
  generated,       \* how many identifiers nanoid has made
  pc,              \* where the toolbar's Reset loop is: "idle", "test", "body"
  freeDrags,       \* how many pieces the user dropped in free movement
  last             \* the last operation and how it ended

vars == <<user_config, storage, chess, cg, moves, currentMoveIdx, menu, id,
          layout, generated, pc, freeDrags, last>>

\* the variables of the host: the code block, the identifier, the layout
\* callback and the Reset loop
host == <<user_config, id, layout, generated, pc>>

\* the user drops at most this many pieces while movement is free
MaxFreeDrags == 1

\* The methods below are functions of the instance: a record t with the
\* fields of `this` and the stored item, and with how the call ended (threw:
\* an exception left it, wrote: it called write_state).

\* the call starts
Begin(t) == [t EXCEPT !.threw = FALSE, !.wrote = FALSE]

\* read_state: the parsed item; null when there is none, undefined when it
\* does not parse.  Spreading either gives no keys.
read_state(st) == IF st.kind = "record" THEN st.rec ELSE EmptyObject

\* write_state
write_state(game_state) == [kind |-> "record", rec |-> game_state]

\* color_turn
color_turn(c) == IF Turn(c) = "w" THEN "white" ELSE "black"

\* dests with an entry for every square, also those without a legal move
dests_every_square(c) ==
  [s \in Squares |->
     LET ms == generate_moves_at(c.pos, s)
     IN [i \in 1..Len(ms) |-> ms[i].to]]

\* dests: an entry for each square with a legal move, with the destination
\* of each of its moves
dests(c) ==
  LET from == {s \in Squares : generate_moves_at(c.pos, s) # <<>>}
  IN [s \in from |->
        LET ms == generate_moves_at(c.pos, s)
        IN [i \in 1..Len(ms) |-> ms[i].to]]

\* check
check(c) == InCheck(c)

\* save_move: the stored record with its pgn replaced
save_move(t) ==
  [t EXCEPT !.storage = write_state(Assign(read_state(t.storage), [pgn |-> Pgn(t.chess)])),
            !.wrote = TRUE]

\* the cg.set of sync_board_with_gamestate
SyncSet(g, c) ==
  [g EXCEPT !.turnColor = color_turn(c),
            !.check = SetCheck(g.pieces, color_turn(c), check(c)),
            !.movable.color = color_turn(c),
            !.movable.dests = [defined |-> TRUE, map |-> dests(c)]]

\* createMenu throws a TypeError: the move list reads move.san of every
\* entry of history(), and a rejected move's entry is null
createMenuThrows(ms) == \E i \in 1..Len(ms) : ms[i] = Null

\* createMenu: the menu is attached to the container and its toggle shows
\* movable.free of the board
createMenu(g) == [attached |-> TRUE, toggle |-> g.movable.free]

\* sync_board_with_gamestate: the board is set from the rules engine, the
\* menu is detached and built again, the move is saved; when createMenu
\* throws, this.menu stays the detached one and nothing is saved
sync_board_with_gamestate(t) ==
  LET t1 == [t EXCEPT !.cg = SyncSet(t.cg, t.chess), !.menu.attached = FALSE]
  IN IF createMenuThrows(t1.moves) THEN [t1 EXCEPT !.threw = TRUE]
     ELSE save_move([t1 EXCEPT !.menu = createMenu(t1.cg)])

\* the events.move callback of a board loaded without `free`: the move is
\* given to the rules engine, its result pushed on the Ledger, and the board
\* synchronised
move_handler(t, orig, dest) ==
  LET c == ChessMove(t.chess, FromTo(orig, dest))
      move == MoveResult(t.chess, c)
  IN sync_board_with_gamestate(
       [Begin(t) EXCEPT !.chess = c, !.moves = Append(t.moves, move)])

\* undo_move dropping the Ledger's entries beyond the new cursor
undo_move_truncating(t) ==
  IF t.currentMoveIdx = 0 THEN Begin(t)
  ELSE LET c == ChessUndo(t.chess)
       IN sync_board_with_gamestate(
            [Begin(t) EXCEPT !.currentMoveIdx = t.currentMoveIdx - 1,
                             !.chess = c,
                             !.cg = CgSetFen(t.cg, Fen(c)),
                             !.moves = SubSeq(t.moves, 1, t.currentMoveIdx)])

\* undo_move
undo_move(t) ==
  IF t.currentMoveIdx = 0 THEN Begin(t)
  ELSE LET c == ChessUndo(t.chess)
       IN sync_board_with_gamestate(
            [Begin(t) EXCEPT !.currentMoveIdx = t.currentMoveIdx - 1,
                             !.chess = c,
                             !.cg = CgSetFen(t.cg, Fen(c))])

\* the entry at index i (counted from 0) of the Ledger
MoveAt(ms, i) == IF i + 1 \in 1..Len(ms) THEN ms[i + 1] ELSE UndefinedMove

\* redo_move
redo_move(t) ==
  IF t.currentMoveIdx = Len(t.moves) - 1 THEN Begin(t)
  ELSE LET t1 == [Begin(t) EXCEPT !.currentMoveIdx = t.currentMoveIdx + 1]
           move == MoveAt(t1.moves, t1.currentMoveIdx)
           c == ChessMove(t1.chess, move)
       IN IF MoveThrows(t1.chess, move) THEN [t1 EXCEPT !.threw = TRUE]
          ELSE sync_board_with_gamestate(
                 [t1 EXCEPT !.chess = c, !.cg = CgSetFen(t1.cg, Fen(c))])

\* setFreeMove
setFreeMove(t, enabled) ==
  IF enabled
    THEN [Begin(t) EXCEPT !.cg.movable.free = TRUE, !.cg.movable.dests = NoDests]
    ELSE sync_board_with_gamestate(Begin(t))

\* history
history(t) == t.moves

\* save_shapes storing a record of the shapes alone
save_shapes_alone(t, shapes) ==
  [t EXCEPT !.storage = write_state([shapes |-> shapes]), !.wrote = TRUE]

\* save_shapes: the stored record with its shapes replaced
save_shapes(t, shapes) ==
  [t EXCEPT !.storage = write_state(Assign(read_state(t.storage), [shapes |-> shapes])),
            !.wrote = TRUE]

\* the identifiers nanoid(8) makes, in the order it makes them: each one new
NanoIds == <<"n1", "n2", "n3", "n4">>

\* nanoid(8), when it has made n identifiers before
nanoid(n) == NanoIds[n + 1]

\* this.id a new identifier whatever the code block declares
NewId_always_new(uc, n) == nanoid(n)

\* this.id: the declared identifier, or a new one
NewId(uc, n) == IF Has(uc, "id") THEN uc.id ELSE nanoid(n)

\* the constructor gives onLayoutReady a callback when no id is declared
NewLayout(uc) == IF Has(uc, "id") THEN "none" ELSE "pending"

\* what getActiveViewOfType and getSectionInfo give write_config: no view, a
\* view but no section information for the container, or the editor with the
\* code block
Views == {"no view", "no section", "editor"}

\* write_config(config) on the code block holding source: without a view it
\* throws; a failure while reading or replacing the block is caught and the
\* block left alone; otherwise the block holds its keys and those of config
write_config(source, config, view) ==
  CASE view = "no view" -> [source |-> source, threw |-> TRUE]
    [] view = "no section" -> [source |-> source, threw |-> FALSE]
    [] view = "editor" -> [source |-> Assign(source, config), threw |-> FALSE]

\* the toggle's onChange: the toggle shows value and setFreeMove is called
toggle_onChange(t, value) ==
  setFreeMove([t EXCEPT !.menu.toggle = value], ~value)

\* config.pgn is truthy
HasPgn(config) == Has(config, "pgn") /\ config.pgn # EmptyPgn

\* the constructor's rules engine
LoadChess(config) ==
  IF HasPgn(config) THEN ChessLoadPgn(config.pgn)
  ELSE IF Has(config, "fen") THEN ChessLoad(config.fen)
  ELSE NewChess

\* the constructor's cursor
InitialMoveIdx(uc, ms) ==
  IF Has(uc, "currentMoveIdx") THEN uc.currentMoveIdx ELSE Len(ms) - 1

\* config.free is truthy
IsFree(config) == Has(config, "free") /\ config.free

\* the constructor's board: free movement with save_move as the move
\* callback, or the destinations of the rules engine with the move handler
LoadCg(config, c) ==
  LET g == Chessground(Fen(c), IF Has(config, "orientation")
                                 THEN config.orientation ELSE Undefined)
  IN IF IsFree(config)
       THEN [g EXCEPT !.events.move = "save_move",
                      !.movable.free = TRUE]
       ELSE [g EXCEPT !.events.move = "move_handler",
                      !.movable.free = FALSE,
                      !.movable.dests = [defined |-> TRUE, map |-> dests(c)]]

\* the constructor's setShapes: the shapes the code block declares
LoadShapes(uc, g) ==
  IF Has(uc, "shapes") THEN [g EXCEPT !.shapes = uc.shapes] ELSE g

\* new Chesser(containerEl, ctx, uc, app) with the item st in localStorage
\* under the instance's identifier
Constructor(uc, st) ==
  LET config == Assign(uc, read_state(st))
      c == LoadChess(config)
  IN [storage |-> st,
      chess |-> c,
      cg |-> LoadShapes(uc, LoadCg(config, c)),
      moves |-> History(c),
      currentMoveIdx |-> InitialMoveIdx(uc, History(c)),
      menu |-> createMenu(LoadCg(config, c)),
      threw |-> FALSE,
      wrote |-> FALSE]

\* ------------------------------------------------------------------------
\* The loads the model starts from
\* ------------------------------------------------------------------------

RECURSIVE PlayAll(_, _)
\* the engine after the moves <<from, to>> of a sequence
PlayAll(c, fromTos) ==
  IF fromTos = <<>> THEN c
  ELSE PlayAll(ChessMove(c, FromTo(Head(fromTos)[1], Head(fromTos)[2])), Tail(fromTos))

\* 1. b3
Game1 == Pgn(PlayAll(NewChess, << << <<2, 2>>, <<2, 3>> >> >>))

\* 1. Kb1 a2+
Game2 == Pgn(PlayAll(NewChess, << << <<1, 1>>, <<2, 1>> >>, << <<1, 3>>, <<1, 2>> >> >>))

\* white to move, the pawn on a3 one step from promotion
PromotionFen ==
  [board |-> [s \in Squares |->
                CASE s = <<1, 1>> -> Piece("w", "k")
                  [] s = <<1, 3>> -> Piece("w", "p")
                  [] s = <<2, 3>> -> Piece("b", "k")
                  [] OTHER -> NoPiece],
   turn |-> "w", half_moves |-> 0, move_number |-> 1]

NoItem == [kind |-> "absent", rec |-> EmptyObject]

\* the pairs <<declared configuration, stored item>> the board is loaded from
Loads ==
  { <<[id |-> "x"], NoItem>>,
    <<[id |-> "x", pgn |-> Game2], NoItem>>,
    <<[id |-> "x", pgn |-> Game2, currentMoveIdx |-> 0], NoItem>>,
    <<[id |-> "x", pgn |-> Game2, currentMoveIdx |-> 3], NoItem>>,
    <<[id |-> "x", fen |-> PromotionFen], NoItem>>,
    <<[id |-> "x"], write_state([pgn |-> Game1])>>,
    <<[id |-> "x", free |-> TRUE], NoItem>> }

\* ------------------------------------------------------------------------
\* The state machine
\* ------------------------------------------------------------------------

\* the instance in the current state
This ==
  [storage |-> storage, chess |-> chess, cg |-> cg, moves |-> moves,
   currentMoveIdx |-> currentMoveIdx, menu |-> menu,
   threw |-> FALSE, wrote |-> FALSE]

\* the instance becomes t
Becomes(t) ==
  /\ storage' = t.storage
  /\ chess' = t.chess
  /\ cg' = t.cg
  /\ moves' = t.moves
  /\ currentMoveIdx' = t.currentMoveIdx
  /\ menu' = t.menu

\* what an operation leaves in `last`
Ended(op, result, t) ==
  [op |-> op, result |-> result, threw |-> t.threw, wrote |-> t.wrote]

\* the board was loaded from one of the pairs of L
InitFrom(L) ==
  \E l \in L :
    /\ user_config = l[1]
    /\ storage = Constructor(l[1], l[2]).storage
    /\ chess = Constructor(l[1], l[2]).chess
    /\ cg = Constructor(l[1], l[2]).cg
    /\ moves = Constructor(l[1], l[2]).moves
    /\ currentMoveIdx = Constructor(l[1], l[2]).currentMoveIdx
    /\ menu = Constructor(l[1], l[2]).menu
    /\ id = NewId(l[1], 0)
    /\ layout = NewLayout(l[1])
    /\ generated = (IF Has(l[1], "id") THEN 0 ELSE 1)
    /\ pc = "idle"
    /\ freeDrags = 0
    /\ last = Ended("load", "-", Constructor(l[1], l[2]))

Init == InitFrom(Loads)

\* the loads whose configuration declares no currentMoveIdx
InitNoCursor == InitFrom({l \in Loads : ~Has(l[1], "currentMoveIdx")})

\* the user drops a piece in free movement only while the bound allows
DragAllowed == cg.movable.free => freeDrags < MaxFreeDrags

DragCount == IF cg.movable.free THEN freeDrags + 1 ELSE freeDrags

\* the user moves a piece on a board loaded without `free`: the board makes
\* the move, then calls the move handler
MoveEvent(orig, dest) ==
  LET t == move_handler([This EXCEPT !.cg = baseUserMove(cg, orig, dest)], orig, dest)
  IN /\ pc = "idle"
     /\ cg.events.move = "move_handler"
     /\ canMove(cg, orig, dest)
     /\ DragAllowed
     /\ Len(moves) < MaxMoves
     /\ Becomes(t)
     /\ freeDrags' = DragCount
     /\ last' = Ended("move", IF t.moves[Len(t.moves)] = Null
                                THEN "rejected" ELSE "accepted", t)
     /\ UNCHANGED host

\* the user moves a piece on a board loaded with `free`: the board makes the
\* move, then calls save_move
FreeMoveEvent(orig, dest) ==
  LET t == save_move([This EXCEPT !.cg = baseUserMove(cg, orig, dest)])
  IN /\ pc = "idle"
     /\ cg.events.move = "save_move"
     /\ canMove(cg, orig, dest)
     /\ DragAllowed
     /\ Becomes(t)
     /\ freeDrags' = DragCount
     /\ last' = Ended("save_move", "-", t)
     /\ UNCHANGED host

\* the toolbar's Undo
Undo ==
  LET t == undo_move(This)
  IN /\ pc = "idle"
     /\ t.currentMoveIdx >= -1 - MaxUnderflow
     /\ Becomes(t)
     /\ last' = Ended("undo", IF currentMoveIdx = 0 THEN "return" ELSE "-", t)
     /\ UNCHANGED <<host, freeDrags>>

\* the toolbar's Redo
Redo ==
  LET t == redo_move(This)
  IN /\ pc = "idle"
     /\ t.currentMoveIdx <= Len(moves) - 1 + MaxOverflow
     /\ Becomes(t)
     /\ last' = Ended("redo", IF currentMoveIdx = Len(moves) - 1
                                THEN "return" ELSE "-", t)
     /\ UNCHANGED <<host, freeDrags>>

\* setFreeMove(enabled)
SetFreeMove(enabled) ==
  LET t == setFreeMove(This, enabled)
  IN /\ pc = "idle"
     /\ Becomes(t)
     /\ last' = Ended("setFreeMove", IF enabled THEN "on" ELSE "off", t)
     /\ UNCHANGED <<host, freeDrags>>

\* nanoid is called at most this many times
MaxIds == 2

\* the lists of shapes the user leaves on the board
ShapeLists == {<<>>, <<[orig |-> <<1, 1>>, brush |-> "green"]>>}

\* the user draws or erases a shape: the board holds the new list and calls
\* drawable.onChange, which is save_shapes
SaveShapes(shapes) ==
  LET t == save_shapes([This EXCEPT !.cg.shapes = shapes], shapes)
  IN /\ pc = "idle"
     /\ shapes # cg.shapes
     /\ Becomes(t)
     /\ last' = Ended("save_shapes", "-", t)
     /\ UNCHANGED <<host, freeDrags>>

\* the layout is ready: the callback of the constructor writes the
\* identifier into the code block
LayoutReady(view) ==
  LET w == write_config(user_config, [id |-> id], view)
  IN /\ pc = "idle"
     /\ layout = "pending"
     /\ layout' = "none"
     /\ user_config' = w.source
     /\ last' = [op |-> "write_config", result |-> view, threw |-> w.threw,
                 wrote |-> FALSE]
     /\ UNCHANGED <<storage, chess, cg, moves, currentMoveIdx, menu, id,
                    generated, pc, freeDrags>>

\* the code block is rendered again: draw_chessboard makes a new Chesser from
\* the block as it is now; the item of a new identifier does not exist.  The
\* host runs a pending layout callback before it renders the block again.
Reload ==
  LET newId == NewId(user_config, generated)
      t == Constructor(user_config, IF newId = id THEN storage ELSE NoItem)
  IN /\ pc = "idle"
     /\ layout = "none"
     /\ Has(user_config, "id") \/ generated < MaxIds
     /\ Becomes(t)
     /\ id' = newId
     /\ layout' = NewLayout(user_config)
     /\ generated' = (IF Has(user_config, "id") THEN generated ELSE generated + 1)
     /\ last' = Ended("load", "-", t)
     /\ UNCHANGED <<user_config, pc, freeDrags>>

\* the user changes the menu's "Enable Free Move?" toggle
ToggleChange ==
  LET t == toggle_onChange(This, ~menu.toggle)
  IN /\ pc = "idle"
     /\ menu.attached
     /\ Becomes(t)
     /\ last' = Ended("toggle", IF ~menu.toggle THEN "on" ELSE "off", t)
     /\ UNCHANGED <<host, freeDrags>>

\* the click handler of the toolbar's "Copy FEN": it calls undo_move
copy_fen_click(t) == undo_move(t)

\* the toolbar's "Copy FEN" is clicked
CopyFen ==
  LET t == copy_fen_click(This)
  IN /\ pc = "idle"
     /\ menu.attached
     /\ t.currentMoveIdx >= -1 - MaxUnderflow
     /\ Becomes(t)
     /\ last' = Ended("copy_fen", IF currentMoveIdx = 0 THEN "return" ELSE "-", t)
     /\ UNCHANGED <<host, freeDrags>>

\* the toolbar's Reset is clicked: its loop starts
ResetClick ==
  /\ pc = "idle"
  /\ menu.attached
  /\ pc' = "test"
  /\ last' = [op |-> "reset", result |-> "click", threw |-> FALSE, wrote |-> FALSE]
  /\ UNCHANGED <<user_config, storage, chess, cg, moves, currentMoveIdx, menu,
                 id, layout, generated, freeDrags>>

\* the loop's test, chesser.history().length > 0
ResetTest ==
  /\ pc = "test"
  /\ pc' = (IF Len(history(This)) > 0 THEN "body" ELSE "idle")
  /\ last' = [op |-> "reset", result |-> "test", threw |-> FALSE, wrote |-> FALSE]
  /\ UNCHANGED <<user_config, storage, chess, cg, moves, currentMoveIdx, menu,
                 id, layout, generated, freeDrags>>

\* the loop's body, chesser.undo_move()
ResetBody ==
  LET t == undo_move(This)
  IN /\ pc = "body"
     /\ t.currentMoveIdx >= -1 - MaxUnderflow
     /\ Becomes(t)
     /\ pc' = (IF t.threw THEN "idle" ELSE "test")
     /\ last' = Ended("reset", "body", t)
     /\ UNCHANGED <<user_config, id, layout, generated, freeDrags>>

Next ==
  \/ \E orig \in Squares, dest \in Squares : MoveEvent(orig, dest)
  \/ \E orig \in Squares, dest \in Squares : FreeMoveEvent(orig, dest)
  \/ Undo
  \/ Redo
  \/ \E enabled \in BOOLEAN : SetFreeMove(enabled)

Spec == Init /\ [][Next]_vars

\* the boards whose configuration declares no currentMoveIdx
SpecNoCursor == InitNoCursor /\ [][Next]_vars

\* The specifications below take the board together with one part of the
\* host each: the stored record, the identifier, the menu.

\* boards with declared fields and a stored record that has some of them and
\* a key the program does not know, with an item that does not parse, and
\* with `free`
StoreLoads ==
  { <<[id |-> "x"], [kind |-> "unparsable", rec |-> EmptyObject]>>,
    <<[id |-> "x", pgn |-> Game1, orientation |-> "white"],
      write_state([pgn |-> Game2, orientation |-> "black", note |-> "kept"])>>,
    <<[id |-> "x", free |-> TRUE], NoItem>> }

InitStore == InitFrom(StoreLoads)

\* the user plays, undoes, redoes and draws, and the block is rendered again
NextStore ==
  \/ \E orig \in Squares, dest \in Squares : MoveEvent(orig, dest)
  \/ \E orig \in Squares, dest \in Squares : FreeMoveEvent(orig, dest)
  \/ Undo
  \/ Redo
  \/ \E shapes \in ShapeLists : SaveShapes(shapes)
  \/ Reload

SpecStore == InitStore /\ [][NextStore]_vars

\* boards whose code block declares no id, and one that declares it
IdentityLoads ==
  { <<EmptyObject, NoItem>>,
    <<[pgn |-> Game1], NoItem>>,
    <<[id |-> "x"], write_state([pgn |-> Game1])>> }

InitIdentity == InitFrom(IdentityLoads)

\* the layout becomes ready, the user plays, undoes and redoes, and the block
\* is rendered again
NextIdentity ==
  \/ \E view \in Views : LayoutReady(view)
  \/ Reload
  \/ \E orig \in Squares, dest \in Squares : MoveEvent(orig, dest)
  \/ Undo
  \/ Redo

SpecIdentity == InitIdentity /\ [][NextIdentity]_vars

\* the board with its menu: the toggle and the toolbar's Reset
NextMenu ==
  \/ \E orig \in Squares, dest \in Squares : MoveEvent(orig, dest)
  \/ \E orig \in Squares, dest \in Squares : FreeMoveEvent(orig, dest)
  \/ Undo
  \/ Redo
  \/ ToggleChange
  \/ CopyFen
  \/ ResetClick
  \/ ResetTest
  \/ ResetBody

\* the Reset loop runs on once it has started: JavaScript runs the click
\* handler to its end
SpecMenu ==
  InitNoCursor /\ [][NextMenu]_vars /\ WF_vars(ResetTest) /\ WF_vars(ResetBody)

\* ------------------------------------------------------------------------
\* The claims
\* ------------------------------------------------------------------------

\* undo() and redo() are repeated at most this many times in a row
MaxRepeat == 3

RECURSIVE ReplayLedger(_, _)
\* the Ledger entries ms replayed on the engine c: whether every entry was a
\* Move the engine accepted, and the engine after them
ReplayLedger(c, ms) ==
  IF ms = <<>> THEN [ok |-> TRUE, chess |-> c]
  ELSE IF Head(ms) = Null \/ MoveFound(c, Head(ms)) = Null
         THEN [ok |-> FALSE, chess |-> c]
         ELSE ReplayLedger(ChessMove(c, Head(ms)), Tail(ms))

RECURSIVE UndoTimes(_, _)
\* undo() n times in a row
UndoTimes(t, n) == IF n = 0 THEN t ELSE UndoTimes(undo_move(t), n - 1)

RECURSIVE RedoTimes(_, _)
\* redo() n times in a row
RedoTimes(t, n) == IF n = 0 THEN t ELSE RedoTimes(redo_move(t), n - 1)

\* the instance after the user moved a piece from orig to dest on the board
\* and the move handler ran
AfterMoveEvent(orig, dest) ==
  move_handler([This EXCEPT !.cg = baseUserMove(cg, orig, dest)], orig, dest)

\* the board lets the user move from orig to dest and calls the move handler
MoveOffered(orig, dest) ==
  cg.events.move = "move_handler" /\ canMove(cg, orig, dest)

\* the legal-destination map worked out from the rules engine's legal moves
FreshDestinations(c) ==
  [s \in {q \in Squares : generate_moves_at(c.pos, q) # <<>>} |->
     {m.to : m \in Range(generate_moves_at(c.pos, s))}]

\* the destinations of a map's entries, as sets
DestinationSets(map) == [s \in DOMAIN map |-> Range(map[s])]

\* C1: in every reachable state the rules engine's position is the position
\* got by replaying the Ledger from the start of the game up to and including
\* currentMoveIdx.
C1_PositionIsLedgerReplay ==
  /\ currentMoveIdx + 1 \in 0..Len(moves)
  /\ LET r == ReplayLedger(ChessLoad(chess.start), SubSeq(moves, 1, currentMoveIdx + 1))
     IN r.ok /\ Fen(r.chess) = Fen(chess)

\* C2: right after a move event the rules engine accepted, the Move it
\* returned is the last element of the Ledger and the cursor is at the new
\* end, currentMoveIdx = length - 1.
C2_AcceptedMoveAdvancesCursor ==
  (last.op = "move" /\ last.result = "accepted") =>
    /\ moves[Len(moves)] = History(chess)[Len(chess.history)]
    /\ currentMoveIdx = Len(moves) - 1

\* C3: with the cursor at index 0 and only the first move made in the rules
\* engine, undo() takes the engine back to the position the game started
\* from and the cursor to -1, and leaves the length of the Ledger alone.
C3_UndoAtZeroReachesStart ==
  (currentMoveIdx = 0 /\ Len(chess.history) = 1 /\ Len(moves) >= 1) =>
    LET u == undo_move(This)
    IN /\ Fen(u.chess) = chess.start
       /\ u.currentMoveIdx = -1
       /\ Len(u.moves) = Len(moves)

\* C4: with the cursor at the sentinel -1, undo() changes nothing (cursor,
\* Ledger, rules engine, board, stored item) and writes nothing.
C4_UndoAtStartIsNoOp ==
  currentMoveIdx = -1 =>
    LET u == undo_move(This)
    IN /\ u.currentMoveIdx = currentMoveIdx
       /\ u.moves = moves
       /\ u.chess = chess
       /\ u.cg = cg
       /\ u.storage = storage
       /\ ~u.wrote

\* C5: in every reachable state whose cursor is not at the start, undo()
\* followed by redo() restores the diagram and the cursor.
C5_UndoRedoRoundTrip ==
  currentMoveIdx # -1 =>
    LET r == redo_move(undo_move(This))
    IN Fen(r.chess) = Fen(chess) /\ r.currentMoveIdx = currentMoveIdx

\* C6: undo() and redo() never change the Ledger: for every N, undo() N times
\* and then redo() N times leaves its contents and its length as they were.
C6_UndoRedoKeepLedger ==
  \A n \in 0..MaxRepeat :
    LET undone == UndoTimes(This, n)
    IN /\ undone.moves = moves
       /\ RedoTimes(undone, n).moves = moves

\* C6's case: a Ledger of two moves or more in which undo() and then redo()
\* both moved the cursor
C6_Witness ==
  /\ Len(moves) >= 2
  /\ undo_move(This).currentMoveIdx = currentMoveIdx - 1
  /\ redo_move(undo_move(This)).currentMoveIdx = currentMoveIdx
  /\ last.op = "redo" /\ last.result = "-"

\* C7: in every reachable state -1 <= currentMoveIdx <= length - 1.
C7_CursorInBounds ==
  -1 <= currentMoveIdx /\ currentMoveIdx <= Len(moves) - 1

\* C8: right after a move the rules engine applied, the board's
\* legal-destination map is the one worked out from the rules engine: an
\* entry for exactly the squares with a legal move, each with that square's
\* legal destinations.
C8_DestinationsAreFresh ==
  (last.op = "move" /\ last.result = "accepted") =>
    /\ cg.movable.dests.defined
    /\ DestinationSets(cg.movable.dests.map) = FreshDestinations(chess)

\* C8's case: a second move was applied and the side to move has legal moves
C8_Witness ==
  /\ last.op = "move" /\ last.result = "accepted"
  /\ Len(chess.history) >= 2
  /\ DOMAIN cg.movable.dests.map # {}

\* C9: a move the rules engine rejects changes nothing: the Ledger, the
\* cursor and the stored item stay as they were and the board shows the rules
\* engine's position.
C9_RejectedMoveChangesNothing ==
  \A orig \in Squares, dest \in Squares :
    (MoveOffered(orig, dest) /\ MoveFound(chess, FromTo(orig, dest)) = Null) =>
      LET t == AfterMoveEvent(orig, dest)
      IN /\ t.moves = moves
         /\ t.currentMoveIdx = currentMoveIdx
         /\ t.storage = storage
         /\ t.cg.pieces = FenRead(Fen(t.chess))

\* C10: a move event appends to the Ledger only when the cursor is at the
\* Ledger's end, currentMoveIdx = length - 1.
C10_AppendOnlyWhenLive ==
  \A orig \in Squares, dest \in Squares :
    (MoveOffered(orig, dest) /\ Len(AfterMoveEvent(orig, dest).moves) > Len(moves)) =>
      currentMoveIdx = Len(moves) - 1

\* the Ledger of a board loaded again from the code block and the stored item
ReloadedLedger == Constructor(user_config, storage).moves

\* C11: after an accepted move, an undo() or a redo() that saved, the stored
\* record's pgn holds the whole Ledger, the moves beyond the cursor too: a
\* board loaded again from it has every move of the Ledger.
C11_StoredGameIsWholeLedger ==
  (last.op \in {"move", "undo", "redo"} /\ last.wrote) => ReloadedLedger = moves

\* the effective configuration: the declared fields, each replaced by the
\* stored record's when that defines it
MergedConfig == Assign(user_config, read_state(storage))

\* C12: a board just loaded has the rules engine, the orientation, the free
\* flag, the shapes and the cursor of the merged configuration: the stored
\* record's value of each field it defines, the declared value otherwise.
C12_PersistedFieldsWin ==
  last.op = "load" =>
    /\ chess = LoadChess(MergedConfig)
    /\ cg.orientation = (IF Has(MergedConfig, "orientation")
                           THEN MergedConfig.orientation ELSE Undefined)
    /\ cg.movable.free = IsFree(MergedConfig)
    /\ cg.shapes = (IF Has(MergedConfig, "shapes") THEN MergedConfig.shapes ELSE <<>>)
    /\ currentMoveIdx = (IF Has(MergedConfig, "currentMoveIdx")
                           THEN MergedConfig.currentMoveIdx ELSE Len(moves) - 1)

\* C13: an identifier is made only while the code block has none; the code
\* block changes only when the pending layout callback writes the made
\* identifier into it, which it does once; from then on, as with a declared
\* identifier, the block keeps that identifier and every board loaded from it
\* has it as this.id.
C13_IdentifierIsKept ==
  [][/\ generated' # generated => ~Has(user_config, "id")
     /\ user_config' # user_config =>
          /\ layout = "pending" /\ layout' = "none"
          /\ ~Has(user_config, "id")
          /\ user_config' = Assign(user_config, [id |-> id])
          /\ id' = id
     /\ Has(user_config, "id") =>
          /\ Has(user_config', "id")
          /\ user_config'.id = user_config.id
          /\ id = user_config.id
          /\ id' = id]_vars

\* a board loaded again from the code block into which the made identifier
\* was written
C13_Witness ==
  /\ last.op = "load"
  /\ generated = 1
  /\ Has(user_config, "id")
  /\ id = nanoid(0)
  /\ user_config.id = id

\* C14: when write_config cannot reach the view or the code block, no
\* exception leaves the layout callback.
C14_HostFailureIsCaught ==
  last.op = "write_config" => ~last.threw

\* C15: after setFreeMove(true) on a board loaded without `free`, the board
\* moves freely with no destinations set, and a move the user then makes
\* leaves the rules engine and the Ledger as they were.
C15_FreeMoveBypassesEngine ==
  (cg.events.move = "move_handler" /\ last.op = "setFreeMove" /\ last.result = "on") =>
    /\ cg.movable.free
    /\ ~cg.movable.dests.defined
    /\ \A orig \in Squares, dest \in Squares :
         canMove(cg, orig, dest) =>
           /\ AfterMoveEvent(orig, dest).chess = chess
           /\ AfterMoveEvent(orig, dest).moves = moves

\* the board shows what the rules engine c holds: its pieces, its colour to
\* move, its check and its legal destinations
BoardShowsEngine(g, c) ==
  /\ g.pieces = FenRead(Fen(c))
  /\ g.turnColor = color_turn(c)
  /\ g.check = SetCheck(FenRead(Fen(c)), color_turn(c), check(c))
  /\ g.movable.dests.defined
  /\ DestinationSets(g.movable.dests.map) = FreshDestinations(c)

\* C16: after setFreeMove(false), on any board, movement is not free, the
\* board's destinations, colour to move and check are those of the rules
\* engine, and the move callback is the one that asks the rules engine.
C16_ConstrainedAgain ==
  LET t == setFreeMove(This, FALSE)
  IN /\ ~t.cg.movable.free
     /\ t.cg.movable.dests.defined
     /\ DestinationSets(t.cg.movable.dests.map) = FreshDestinations(t.chess)
     /\ t.cg.turnColor = color_turn(t.chess)
     /\ t.cg.check = SetCheck(t.cg.pieces, color_turn(t.chess), check(t.chess))
     /\ t.cg.events.move = "move_handler"

\* C17: after an undo() or a redo() that moved the cursor, the board shows
\* the rules engine's position, colour to move, check and destinations.
C17_CursorMovePushesBoard ==
  (last.op \in {"undo", "redo"} /\ last.result = "-") => BoardShowsEngine(cg, chess)

\* the record `after` has the keys of `before` and at most `field` besides,
\* and every key but `field` has the value it had
OnlyChanges(before, after, field) ==
  /\ DOMAIN before \subseteq DOMAIN after
  /\ DOMAIN after \subseteq DOMAIN before \cup {field}
  /\ \A k \in DOMAIN before \ {field} : after[k] = before[k]

\* C18: in every state the user's moves, undos, redos, drawings and reloads
\* reach, save_move changes only the pgn of the stored record and
\* save_shapes only its shapes; every other key, known to the program or not,
\* keeps its value.
C18_SavesChangeOneField ==
  /\ OnlyChanges(read_state(storage), read_state(save_move(This).storage), "pgn")
  /\ \A shapes \in ShapeLists :
       OnlyChanges(read_state(storage),
                   read_state(save_shapes(This, shapes).storage), "shapes")

\* a stored record with a key the program does not know, after a save of
\* shapes and a save of a move were made on it
C18_Witness ==
  /\ last.wrote
  /\ Has(read_state(storage), "note") /\ read_state(storage).note = "kept"
  /\ Has(read_state(storage), "orientation")
  /\ Has(read_state(storage), "shapes") /\ read_state(storage).shapes # <<>>
  /\ Has(read_state(storage), "pgn") /\ read_state(storage).pgn # Game2

\* C19: the toolbar's Reset, once clicked, comes to the end of its loop.
C19_ResetTerminates == (pc = "test") ~> (pc = "idle")

\* C20: after a change of the menu's toggle the board moves freely exactly
\* when the toggle was turned on.
C20_ToggleSetsFreeMove ==
  last.op = "toggle" => (cg.movable.free <=> last.result = "on")

\* C21: wherever the toolbar is shown, a click on "Copy FEN" leaves the
\* cursor, the Ledger, the rules engine, the board and the stored item as
\* they were and writes nothing.
C21_CopyFenIsReadOnly ==
  menu.attached =>
    LET t == copy_fen_click(This)
    IN /\ t.currentMoveIdx = currentMoveIdx
       /\ t.moves = moves
       /\ t.chess = chess
       /\ t.cg = cg
       /\ t.storage = storage
       /\ ~t.wrote

====
